---- MODULE Spec2Model ----
(***************************************************************************)
(* A model of frost-dalek-cli (src/src/lib.rs): the three operations       *)
(* generate_keys, sign_message and validate_signature, the key record and  *)
(* the signature record they read and write, and the FROST protocol steps  *)
(* they drive through the frost_dalek library.                             *)
(*                                                                         *)
(* Group and field.  The Ristretto group has prime order; the model keeps  *)
(* the structure and scales the order down to the prime Q.  A scalar is a  *)
(* number in 0..Q-1 and a group element is written by its discrete         *)
(* logarithm to the base point, so s*G is s, P+P' is addition mod Q and    *)
(* s*P is multiplication mod Q.  Hashes to scalars are fixed mixing        *)
(* functions of their inputs; the message digest is injective on the       *)
(* modelled messages.                                                      *)
(*                                                                         *)
(* Randomness.  OsRng is a stream of scalars fixed by its seed: Draw(s, k) *)
(* is the k-th scalar the call draws.  The seed is an input of the call.   *)
(* Nothing in the code keeps a stream from repeating a value: the stream   *)
(* of seed Q - 1 stays at one scalar, the others do not repeat within a    *)
(* call.                                                                   *)
(*                                                                         *)
(* Calls.  generate_keys and sign_message advance one loop iteration at a  *)
(* time; gk and sg hold their locals, and a call that returns drops them.  *)
(* Writing an output file is File::create followed by the write, and       *)
(* either of them may fail.                                                *)
(***************************************************************************)
EXTENDS Integers, Sequences, FiniteSets, TLC

VARIABLES
    key_file,        \* the key record file: NoFile, Garbage or a FrostKeys record
    signature_file,  \* the signature record file: NoFile, Garbage or a byte sequence
    gk,              \* the frame of a generate_keys call in progress (pc = "idle": none)
    sg,              \* the frame of a sign_message call in progress (pc = "idle": none)
    signed,          \* the last sign_message call that returned: its result, the message
                     \* of the signature it wrote, whether its signer list held
                     \* a signer twice, and whether both files are still as that
                     \* call left them
    last             \* what the last completed call was given and what it returned

vars == <<key_file, signature_file, gk, sg, signed, last>>

(***************************************************************************)
(* Bounds of the model and the inputs it enumerates.                       *)
(***************************************************************************)
MaxN == 3          \* t, n and signer values range over 0..MaxN

MaxSigners == 3    \* a signer list holds at most this many entries

Messages == {0, 1} \* two messages, written by their codes

Seeds == {1, 3, 32748}  \* the OsRng streams generate_keys draws from

SignSeeds == {1, 32748} \* the OsRng streams sign_message draws from

(***************************************************************************)
(* The scalar field and the group.                                         *)
(***************************************************************************)
Q == 32749

Add(a, b) == (a + b) % Q

Sub(a, b) == (a + Q - (b % Q)) % Q

Mul(a, b) == (a * b) % Q

\* The inverse of a nonzero scalar: a^-1 = -(Q div a) * (Q mod a)^-1.
RECURSIVE Inv(_)
Inv(a) == IF a = 1 THEN 1 ELSE (Q - (((Q \div a) * Inv(Q % a)) % Q)) % Q

RECURSIVE SumSeq(_)
SumSeq(s) == IF s = <<>> THEN 0 ELSE Add(Head(s), SumSeq(Tail(s)))

RECURSIVE PlainSum(_)
PlainSum(s) == IF s = <<>> THEN 0 ELSE Head(s) + PlainSum(Tail(s))

\* OsRng: the k-th scalar of the stream with the given seed.
RECURSIVE Draw(_, _)
Draw(seed, k) == IF k = 0 THEN seed % Q ELSE (2 * Draw(seed, k - 1) + 1) % Q

(***************************************************************************)
(* Encodings.  A scalar and a compressed point are 32 bytes; the           *)
(* signature record is R followed by z, 64 bytes.                          *)
(***************************************************************************)
ScalarLen == 32

SignatureLen == 64

\* What a failed decoding yields: no scalar.
Invalid == Q

\* Little-endian, as Scalar::to_bytes.
ToBytes32(v) ==
    [k \in 1 .. ScalarLen |->
        IF k = 1 THEN v % 256 ELSE IF k = 2 THEN v \div 256 ELSE 0]

\* Scalar::from_canonical_bytes and CompressedRistretto::decompress: only
\* the canonical encoding of a field or group element decodes.
FromBytes32(b) ==
    IF b[1] + 256 * b[2] < Q /\ \A k \in 3 .. ScalarLen : b[k] = 0
    THEN b[1] + 256 * b[2]
    ELSE Invalid

(***************************************************************************)
(* Hashes.                                                                 *)
(***************************************************************************)
\* A digest that leaves the message out.
ContextOnlyHash(context, message) == 2 * context

compute_message_hash(context, message) == 2 * context + message

compute_challenge(message_hash, group_key, R) ==
    (message_hash + 2 * group_key + 3 * R + 1) % Q

NizkHash(index, public_key, M) == (index + 2 * public_key + 3 * M + 2) % Q

(***************************************************************************)
(* frost_dalek::Participant and the proof of knowledge of its secret key.  *)
(***************************************************************************)
NizkProve(index, secret_key, public_key, k) ==
    [s |-> NizkHash(index, public_key, k),
     r |-> Add(k, Mul(secret_key, NizkHash(index, public_key, k)))]

NizkVerify(proof, index, public_key) ==
    proof.s = NizkHash(index, public_key, Sub(proof.r, Mul(public_key, proof.s)))

\* Participant::new(&params, index): t random coefficients, their
\* commitments, and a proof of knowledge of the constant term.  The call
\* indexes coefficient 0, which does not exist when t = 0.
ParticipantDraws(t) == t + 1

ParticipantCoefficients(t, index, seed) ==
    [j \in 1 .. t |-> Draw(seed, (index - 1) * ParticipantDraws(t) + (j - 1))]

ParticipantNewPanics(t) == t = 0

ParticipantNew(t, index, seed) ==
    LET coeff == ParticipantCoefficients(t, index, seed)
        k == Draw(seed, (index - 1) * ParticipantDraws(t) + t)
    IN  [index |-> index,
         commitments |-> coeff,
         proof_of_secret_key |-> NizkProve(index, coeff[1], coeff[1], k)]

(***************************************************************************)
(* frost_dalek::DistributedKeyGeneration: round one, round two, finish.    *)
(***************************************************************************)
RECURSIVE Horner(_, _, _)
Horner(coefficients, x, k) ==
    IF k > Len(coefficients) THEN 0
    ELSE Add(coefficients[k], Mul(x % Q, Horner(coefficients, x, k + 1)))

\* SecretShare::evaluate_polynomial(&index, coefficients): the share the
\* owner of the polynomial computes for the participant `index`.
EvaluatePolynomial(index, coefficients) ==
    [index |-> index, polynomial_evaluation |-> Horner(coefficients, index, 1)]

\* SecretShare::verify(commitment): g^share = prod_k commitment[k]^(index^k).
ShareVerify(share, commitment) ==
    share.polynomial_evaluation = Horner(commitment, share.index, 1)

RemoveAt(s, i) == [k \in 1 .. (Len(s) - 1) |-> IF k < i THEN s[k] ELSE s[k + 1]]

\* DistributedKeyGeneration::new(&params, &my_index, &my_coefficients,
\* &mut other_participants): checks the number of peers and their proofs,
\* and evaluates the own polynomial for every peer and for oneself.
DistributedKeyGenerationNew(n, my_index, my_coefficients, other_participants) ==
    IF Len(other_participants) # n - 1
    THEN [ok |-> FALSE]
    ELSE IF \E k \in 1 .. Len(other_participants) :
                \/ other_participants[k].commitments = <<>>
                \/ ~NizkVerify(other_participants[k].proof_of_secret_key,
                               other_participants[k].index,
                               other_participants[k].commitments[1])
    THEN [ok |-> FALSE]
    ELSE [ok |-> TRUE,
          state |->
            [their_commitments |->
                [k \in 1 .. Len(other_participants) |->
                    [index |-> other_participants[k].index,
                     commitments |-> other_participants[k].commitments]],
             my_secret_share |-> EvaluatePolynomial(my_index, my_coefficients),
             their_secret_shares |->
                [k \in 1 .. Len(other_participants) |->
                    EvaluatePolynomial(other_participants[k].index, my_coefficients)],
             my_secret_shares |-> <<>>]]

\* A collection that takes position i of every sender's list.
RECURSIVE CollectSharesAtIndex(_, _, _)
CollectSharesAtIndex(all_secret_shares, i, j) ==
    IF j >= Len(all_secret_shares) THEN <<>>
    ELSE LET shares == all_secret_shares[j + 1]
             rest == CollectSharesAtIndex(all_secret_shares, i, j + 1)
         IN  IF j = i THEN rest
             ELSE IF i + 1 <= Len(shares) THEN <<shares[i + 1]>> \o rest
             ELSE rest

\* Lines 106-114: participant i (0-based) takes from every other sender j
\* the share at position i (i < j) or i - 1 (i > j) of the sender's list,
\* where the list holds one.
RECURSIVE CollectShares(_, _, _)
CollectShares(all_secret_shares, i, j) ==
    IF j >= Len(all_secret_shares) THEN <<>>
    ELSE LET pos == IF i < j THEN i ELSE i - 1
             shares == all_secret_shares[j + 1]
             rest == CollectShares(all_secret_shares, i, j + 1)
         IN  IF j = i THEN rest
             ELSE IF pos + 1 <= Len(shares) THEN <<shares[pos + 1]>> \o rest
             ELSE rest

\* DistributedKeyGeneration::to_round_two(my_secret_shares): a received
\* share is verified against the commitment stored under the share's index.
ToRoundTwo(state, my_secret_shares) ==
    IF \A k \in 1 .. Len(my_secret_shares) :
           \A c \in 1 .. Len(state.their_commitments) :
               state.their_commitments[c].index = my_secret_shares[k].index
                   => ShareVerify(my_secret_shares[k],
                                  state.their_commitments[c].commitments)
    THEN [ok |-> TRUE,
          state |-> [state EXCEPT !.their_secret_shares = <<>>,
                                  !.my_secret_shares = my_secret_shares]]
    ELSE [ok |-> FALSE]

\* DistributedKeyGeneration::finish(my_commitment): the long-lived secret
\* key is the sum of the received shares and the own one; the group key is
\* the sum of every participant's constant-term commitment.
DkgFinish(state, my_commitment) ==
    IF \E c \in 1 .. Len(state.their_commitments) :
           state.their_commitments[c].commitments = <<>>
    THEN [ok |-> FALSE]
    ELSE [ok |-> TRUE,
          group_key |->
            Add(SumSeq([c \in 1 .. Len(state.their_commitments) |->
                            state.their_commitments[c].commitments[1]]),
                my_commitment),
          secret_key |->
            [index |-> state.my_secret_share.index,
             key |-> Add(SumSeq([k \in 1 .. Len(state.my_secret_shares) |->
                                    state.my_secret_shares[k].polynomial_evaluation]),
                         state.my_secret_share.polynomial_evaluation)]]

\* An encoding that numbers the participants from 0.
SecretKeyToBytesZeroBased(secret_key) ==
    <<ToBytes32(secret_key.key), secret_key.index - 1>>

\* SecretKey::to_bytes and the FrostKeys record of lines 159-163.
SecretKeyToBytes(secret_key) == <<ToBytes32(secret_key.key), secret_key.index>>

\* A record that stores another group element than the one it is given.
FrostKeysOtherGroupKey(group_key, private_shares, threshold) ==
    [kind |-> "keys",
     group_key |-> ToBytes32(Add(group_key, 1)),
     private_shares |-> private_shares,
     threshold |-> threshold]

FrostKeys(group_key, private_shares, threshold) ==
    [kind |-> "keys",
     group_key |-> ToBytes32(group_key),
     private_shares |-> private_shares,
     threshold |-> threshold]

(***************************************************************************)
(* Files.                                                                  *)
(***************************************************************************)
NoFile == [kind |-> "none"]

Garbage == [kind |-> "garbage"]

IsRecordFile(f) == f.kind = "keys"

Bytes == 0 .. 255

IsByteArray(b, len) == Len(b) = len /\ \A k \in 1 .. len : b[k] \in Bytes

\* serde_json::from_reader into FrostKeys (lines 13-18): group_key is
\* [u8; 32], private_shares is a Vec of ([u8; 32], u32) and threshold is a
\* u32; a file that does not hold all of these does not deserialize.
IsFrostKeys(f) ==
    /\ f.kind = "keys"
    /\ IsByteArray(f.group_key, ScalarLen)
    /\ \A k \in 1 .. Len(f.private_shares) :
           /\ IsByteArray(f.private_shares[k][1], ScalarLen)
           /\ f.private_shares[k][2] \in Nat
    /\ f.threshold \in Nat

\* Lines 192-194 and 325-327: File::open and from_reader, with `?`.
ReadKeyFile(file) ==
    IF file = NoFile THEN [result |-> "Err", error |-> "KeyFileMissing"]
    ELSE IF ~IsFrostKeys(file)
    THEN [result |-> "Err", error |-> "MalformedKeyMaterial"]
    ELSE [result |-> "Ok", error |-> "", frost_keys |-> file]

BytesFile(bytes) == [kind |-> "bytes", bytes |-> bytes]

\* What File::create and the write that follows it may do (lines 166-167
\* and 278-279, both with `?`): the record is written; the file cannot be
\* created, and nothing changes; the file is created, which empties it, and
\* the write fails.
IoOutcomes == {"written", "not_created", "not_written"}

(***************************************************************************)
(* generate_keys(t, n, output_key_file), one step per loop iteration.      *)
(***************************************************************************)
IdleFrame ==
    [pc |-> "idle", t |-> 0, n |-> 0, seed |-> 0, i |-> 0,
     participants |-> <<>>, coefficients |-> <<>>, proofs_verified |-> 0,
     dkg_states |-> <<>>, all_secret_shares |-> <<>>,
     dkg_states_round_two |-> <<>>,
     group_keys |-> <<>>, private_shares |-> <<>>]

\* What a finished generate_keys call leaves to look at: its arguments,
\* how it ended, and the locals it had built by then.
GenerateKeysReturn(frame, result, error) ==
    [op |-> "generate_keys", t |-> frame.t, n |-> frame.n,
     result |-> result, error |-> error,
     participants |-> Len(frame.participants),
     round_one |-> Len(frame.dkg_states) + Len(frame.dkg_states_round_two),
     group_keys |-> frame.group_keys,
     private_shares |-> frame.private_shares]

GenerateKeysEnd(frame, result, error) ==
    /\ gk' = IdleFrame
    /\ last' = GenerateKeysReturn(frame, result, error)

\* A check that lets a threshold of n + 1 pass.
ThresholdFarExceedsParticipants(t, n) == t > n + 1

\* Lines 35-40: the check of the threshold against the participants.
ThresholdExceedsParticipants(t, n) == t > n

\* Lines 30-43: the call and its check of t against n.
GenerateKeysCall ==
    /\ gk.pc = "idle"
    /\ sg.pc = "idle"
    /\ ~signed.done
    /\ key_file = NoFile
    /\ \E t \in 0 .. MaxN, n \in 0 .. MaxN, seed \in Seeds :
         LET frame == [IdleFrame EXCEPT !.t = t, !.n = n, !.seed = seed, !.i = 1]
         IN  IF ThresholdExceedsParticipants(t, n)
             THEN GenerateKeysEnd(frame, "Err", "ThresholdExceedsParticipants")
             ELSE /\ gk' = [frame EXCEPT !.pc = "create_participants"]
                  /\ last' = [op |-> "generate_keys", t |-> t, n |-> n,
                              result |-> "Running"]
    /\ UNCHANGED <<key_file, signature_file, sg, signed>>

\* Lines 45-52: for i in 1..=n, Participant::new.
CreateParticipant ==
    /\ gk.pc = "create_participants"
    /\ IF gk.i > gk.n
       THEN /\ gk' = [gk EXCEPT !.pc = "verify_proofs", !.i = 0]
            /\ UNCHANGED last
       ELSE IF ParticipantNewPanics(gk.t)
       THEN GenerateKeysEnd(gk, "Panic", "index out of bounds")
       ELSE /\ gk' = [gk EXCEPT
                        !.participants = Append(@, ParticipantNew(gk.t, gk.i, gk.seed)),
                        !.coefficients =
                            Append(@, ParticipantCoefficients(gk.t, gk.i, gk.seed)),
                        !.i = @ + 1]
            /\ UNCHANGED last
    /\ UNCHANGED <<key_file, signature_file, sg, signed>>

\* A loop over the proofs that stops after the first one.
FirstProofVerified(frame) ==
    frame.i >= 1 \/ frame.i >= Len(frame.participants)

\* Line 55: the loop over &participants has visited every participant.
EveryProofVerified(frame) == frame.i >= Len(frame.participants)

\* Lines 54-66: every participant's proof of secret key is verified;
\* proofs_verified counts the proofs that passed.
VerifyProof ==
    /\ gk.pc = "verify_proofs"
    /\ IF EveryProofVerified(gk)
       THEN /\ gk' = [gk EXCEPT !.pc = "round_one", !.i = 0]
            /\ UNCHANGED last
       ELSE LET participant == gk.participants[gk.i + 1]
            IN  IF participant.commitments = <<>>
                THEN GenerateKeysEnd(gk, "Panic", "unwrap on None")
                ELSE IF ~NizkVerify(participant.proof_of_secret_key,
                                    participant.index, participant.commitments[1])
                THEN GenerateKeysEnd(gk, "Err", "ProofOfKnowledgeInvalid")
                ELSE /\ gk' = [gk EXCEPT !.i = @ + 1, !.proofs_verified = @ + 1]
                     /\ UNCHANGED last
    /\ UNCHANGED <<key_file, signature_file, sg, signed>>

\* Lines 68-101: round one of participant i against its n - 1 peers.
RoundOne ==
    /\ gk.pc = "round_one"
    /\ IF gk.i >= Len(gk.participants)
       THEN /\ gk' = [gk EXCEPT !.pc = "round_two", !.i = 0]
            /\ UNCHANGED last
       ELSE LET participant == gk.participants[gk.i + 1]
                r == DistributedKeyGenerationNew(
                        gk.n, participant.index, gk.coefficients[gk.i + 1],
                        RemoveAt(gk.participants, gk.i + 1))
            IN  IF ~r.ok
                THEN GenerateKeysEnd(gk, "Err", "DistributedKeyGenerationFailed")
                ELSE /\ gk' = [gk EXCEPT
                                 !.dkg_states = Append(@, r.state),
                                 !.all_secret_shares =
                                     Append(@, r.state.their_secret_shares),
                                 !.i = @ + 1]
                     /\ UNCHANGED last
    /\ UNCHANGED <<key_file, signature_file, sg, signed>>

\* A loop over the round-one states that stops once one participant is in
\* round two.
FirstInRoundTwo(frame) ==
    frame.dkg_states = <<>> \/ frame.dkg_states_round_two # <<>>

\* Line 105: the loop over dkg_states.into_iter() has consumed every state.
EveryoneInRoundTwo(frame) == frame.dkg_states = <<>>

\* Lines 103-133: participant i collects its shares, their number is
\* checked, and it moves to round two.  dkg_states is consumed in order.
RoundTwo ==
    /\ gk.pc = "round_two"
    /\ IF EveryoneInRoundTwo(gk)
       THEN /\ gk' = [gk EXCEPT !.pc = "finish", !.i = 0]
            /\ UNCHANGED last
       ELSE LET my_secret_shares == CollectShares(gk.all_secret_shares, gk.i, 0)
                r == ToRoundTwo(Head(gk.dkg_states), my_secret_shares)
            IN  IF Len(my_secret_shares) # gk.n - 1
                THEN GenerateKeysEnd(gk, "Err", "ShareCountMismatch")
                ELSE IF ~r.ok
                THEN GenerateKeysEnd(gk, "Err", "RoundTwoFailed")
                ELSE /\ gk' = [gk EXCEPT
                                 !.dkg_states = Tail(@),
                                 !.dkg_states_round_two = Append(@, r.state),
                                 !.i = @ + 1]
                     /\ UNCHANGED last
    /\ UNCHANGED <<key_file, signature_file, sg, signed>>

\* Lines 135-156: participant i finishes; its group key is compared with
\* the previous participant's by assert_eq!.
Finish ==
    /\ gk.pc = "finish"
    /\ IF gk.i >= Len(gk.dkg_states_round_two)
       THEN /\ gk' = [gk EXCEPT !.pc = "save"]
            /\ UNCHANGED last
       ELSE LET participant == gk.participants[gk.i + 1]
                r == DkgFinish(gk.dkg_states_round_two[gk.i + 1],
                               participant.commitments[1])
                frame == [gk EXCEPT
                            !.group_keys = Append(@, r.group_key),
                            !.private_shares = Append(@, SecretKeyToBytes(r.secret_key)),
                            !.i = @ + 1]
            IN  IF participant.commitments = <<>>
                THEN GenerateKeysEnd(gk, "Panic", "unwrap on None")
                ELSE IF ~r.ok
                THEN GenerateKeysEnd(gk, "Err", "FinishFailed")
                ELSE IF gk.i > 0 /\ r.group_key # gk.group_keys[gk.i]
                THEN GenerateKeysEnd(frame, "Panic", "assertion failed")
                ELSE /\ gk' = frame
                     /\ UNCHANGED last
    /\ UNCHANGED <<key_file, signature_file, sg, signed>>

\* Lines 158-170: the FrostKeys record is built from group_keys[0] and
\* written to the key file.
Save ==
    /\ gk.pc = "save"
    /\ IF gk.group_keys = <<>>
       THEN /\ GenerateKeysEnd(gk, "Panic", "index out of bounds")
            /\ UNCHANGED key_file
       ELSE \E io \in IoOutcomes :
              IF io = "written"
              THEN /\ key_file' = FrostKeys(gk.group_keys[1], gk.private_shares, gk.t)
                   /\ GenerateKeysEnd(gk, "Ok", "")
              ELSE IF io = "not_created"
              THEN /\ UNCHANGED key_file
                   /\ GenerateKeysEnd(gk, "Err", "KeyFileNotCreated")
              ELSE /\ key_file' = Garbage
                   /\ GenerateKeysEnd(gk, "Err", "KeyFileNotWritten")
    /\ UNCHANGED <<signature_file, sg, signed>>

(***************************************************************************)
(* frost_dalek signing: commitment shares, the aggregator, partial         *)
(* signatures, finalize and aggregate.                                     *)
(***************************************************************************)
\* SignatureSecretKey::from_bytes(index, key_bytes).
SecretKeyFromBytes(index, key_bytes) ==
    [index |-> index, key |-> FromBytes32(key_bytes)]

\* generate_commitment_share_lists(&mut OsRng, index, 1) for the entry at
\* position p of the signer list: a hiding and a binding nonce, drawn in
\* this order, and their public commitments.
GenerateCommitmentShare(index, seed, p) ==
    [index |-> index,
     hiding |-> Draw(seed, 2 * (p - 1)),
     binding |-> Draw(seed, 2 * (p - 1) + 1)]

\* SignatureAggregator::include_signer pushes a Signer onto the list.
Signer(commitment_share) ==
    [participant_index |-> commitment_share.index,
     published_commitment_share |->
        <<commitment_share.hiding, commitment_share.binding>>]

RECURSIVE SortedIndices(_)
SortedIndices(S) ==
    IF S = {} THEN <<>>
    ELSE LET m == CHOOSE x \in S : \A y \in S : x <= y
         IN  <<m>> \o SortedIndices(S \ {m})

FirstWith(signers, index) ==
    signers[CHOOSE k \in 1 .. Len(signers) :
                /\ signers[k].participant_index = index
                /\ \A j \in 1 .. (k - 1) : signers[j].participant_index # index]

\* SignatureAggregator::get_signers: signers.sort(); signers.dedup().
\* Signers compare by participant index alone, the sort is stable and
\* dedup keeps the first of equal neighbours.
GetSigners(signers) ==
    LET order == SortedIndices({signers[k].participant_index : k \in 1 .. Len(signers)})
    IN  [k \in 1 .. Len(order) |-> FirstWith(signers, order[k])]

\* compute_binding_factors_and_group_commitment(&message_hash, &signers):
\* the binding factor rho_k of the signer at position k hashes the message
\* digest, every signer's index and commitments, and the signer's own;
\* R_k = D_k + rho_k * E_k, and the group commitment R is their sum.
ComputeBindingFactorsAndGroupCommitment(message_hash, signers) ==
    LET all == PlainSum([j \in 1 .. Len(signers) |->
                            (signers[j].participant_index
                             + 2 * signers[j].published_commitment_share[1]
                             + 3 * signers[j].published_commitment_share[2]) % Q])
        binding_factors ==
            [k \in 1 .. Len(signers) |->
                (message_hash + all
                 + 3 * signers[k].participant_index
                 + signers[k].published_commitment_share[1]
                 + 2 * signers[k].published_commitment_share[2] + 1) % Q]
        Rs == [k \in 1 .. Len(signers) |->
                  Add(signers[k].published_commitment_share[1],
                      Mul(binding_factors[k],
                          signers[k].published_commitment_share[2]))]
    IN  [binding_factors |-> binding_factors, Rs |-> Rs, R |-> SumSeq(Rs)]

PositionOf(signers, index) ==
    CHOOSE k \in 1 .. Len(signers) : signers[k].participant_index = index

RECURSIVE LagrangeNum(_, _, _)
LagrangeNum(index, signers, k) ==
    IF k > Len(signers) THEN 1
    ELSE IF signers[k].participant_index = index
    THEN LagrangeNum(index, signers, k + 1)
    ELSE Mul(signers[k].participant_index % Q, LagrangeNum(index, signers, k + 1))

RECURSIVE LagrangeDen(_, _, _)
LagrangeDen(index, signers, k) ==
    IF k > Len(signers) THEN 1
    ELSE IF signers[k].participant_index = index
    THEN LagrangeDen(index, signers, k + 1)
    ELSE Mul(Sub(signers[k].participant_index % Q, index % Q),
             LagrangeDen(index, signers, k + 1))

\* calculate_lagrange_coefficients(&index, &all_participant_indices); a
\* zero denominator is an error that its callers unwrap.
LagrangeFails(index, signers) == LagrangeDen(index, signers, 1) = 0

LagrangeCoefficient(index, signers) ==
    Mul(LagrangeNum(index, signers, 1), Inv(LagrangeDen(index, signers, 1)))

\* SecretKey::sign(&message_hash, &group_key, &mut sec_com, 0, &signers):
\* z = d + e * rho + lambda * key * c.
PartialSign(secret_key, commitment_share, message_hash, group_key, signers) ==
    LET computed == ComputeBindingFactorsAndGroupCommitment(message_hash, signers)
        challenge == compute_challenge(message_hash, group_key, computed.R)
        my_binding_factor ==
            computed.binding_factors[PositionOf(signers, secret_key.index)]
        lambda == LagrangeCoefficient(secret_key.index, signers)
    IN  [index |-> secret_key.index,
         z |-> Add(Add(commitment_share.hiding,
                       Mul(commitment_share.binding, my_binding_factor)),
                   Mul(Mul(lambda, secret_key.key), challenge))]

\* The aggregator keeps partial signatures and public keys in maps keyed by
\* participant index: a later insert under the same index replaces the
\* earlier one.
LastWith(entries, index) ==
    entries[CHOOSE k \in 1 .. Len(entries) :
                /\ entries[k].index = index
                /\ \A j \in (k + 1) .. Len(entries) : entries[j].index # index]

\* SignatureAggregator::finalize: every signer has a partial signature and
\* a public key.
Finalize(signers, partial_signatures, public_keys) ==
    \A k \in 1 .. Len(signers) :
        /\ \E j \in 1 .. Len(partial_signatures) :
               partial_signatures[j].index = signers[k].participant_index
        /\ \E j \in 1 .. Len(public_keys) :
               public_keys[j].index = signers[k].participant_index

\* SignatureAggregator::aggregate: every signer's partial signature is
\* checked, z_k * G = R_k + (c * lambda_k) * Y_k, and the checked ones are
\* summed.
Aggregate(signers, partial_signatures, public_keys, message_hash, group_key) ==
    LET computed == ComputeBindingFactorsAndGroupCommitment(message_hash, signers)
        c == compute_challenge(message_hash, group_key, computed.R)
        partial_sig == [k \in 1 .. Len(signers) |->
                           LastWith(partial_signatures,
                                    signers[k].participant_index).z]
        Y == [k \in 1 .. Len(signers) |->
                 LastWith(public_keys, signers[k].participant_index).share]
        lambda == [k \in 1 .. Len(signers) |->
                      LagrangeCoefficient(signers[k].participant_index, signers)]
    IN  IF \A k \in 1 .. Len(signers) :
               partial_sig[k] = Add(computed.Rs[k], Mul(Y[k], Mul(c, lambda[k])))
        THEN [ok |-> TRUE, R |-> computed.R, z |-> SumSeq(partial_sig)]
        ELSE [ok |-> FALSE]

\* ThresholdSignature::to_bytes: R compressed, then z.
SignatureToBytes(R, z) == ToBytes32(R) \o ToBytes32(z)

\* ThresholdSignature::from_bytes([u8; 64]).
SignatureFromBytes(bytes) ==
    LET R == FromBytes32([k \in 1 .. ScalarLen |-> bytes[k]])
        z == FromBytes32([k \in 1 .. ScalarLen |-> bytes[ScalarLen + k]])
    IN  [ok |-> R # Invalid /\ z # Invalid, R |-> R, z |-> z]

\* ThresholdSignature::verify(&group_key, &message_hash): R = z*G - c*Y.
SignatureVerify(signature, group_key, message_hash) ==
    signature.R
      = Sub(signature.z,
            Mul(compute_challenge(message_hash, group_key, signature.R), group_key))

(***************************************************************************)
(* sign_message(message, signers, n, key_file, signature_file).            *)
(***************************************************************************)
SignContext == 3

\* The aggregator before SignatureAggregator::new.
NoAggregator ==
    [state |-> "none", signers |-> <<>>, public_keys |-> <<>>,
     partial_signatures |-> <<>>]

\* The locals of a sign_message call; `chosen` is the signer list the
\* aggregator returns at line 258, which the code also calls `signers`.
\* nonce_uses[k] counts the partial signatures made with the commitment
\* share of entry k, finalize_calls the calls of finalize.
IdleSign ==
    [pc |-> "idle", message |-> 0, signers |-> <<>>, n |-> 0, seed |-> 0,
     i |-> 0, group_key |-> 0, secret_keys |-> <<>>,
     public_comshares |-> <<>>, secret_comshares |-> <<>>,
     nonce_uses |-> <<>>, message_hash |-> 0,
     aggregator |-> NoAggregator, chosen |-> <<>>, finalize_calls |-> 0,
     threshold_signature |-> <<>>]

\* What a finished sign_message call leaves to look at: its arguments, how
\* it ended, the participants whose shares it loaded and the number of
\* commitment shares it generated.
SignReturn(frame, result, error) ==
    [op |-> "sign_message", message |-> frame.message,
     signers |-> frame.signers, n |-> frame.n,
     result |-> result, error |-> error,
     secret_keys |-> [k \in 1 .. Len(frame.secret_keys) |->
                         frame.secret_keys[k].index],
     commitment_shares |-> Len(frame.public_comshares)]

SignEnd(frame, result, error) ==
    /\ sg' = IdleSign
    /\ last' = SignReturn(frame, result, error)
    /\ signed' = [done |-> TRUE, message |-> frame.message,
                  repeats |-> result = "Ok"
                                /\ \E j, k \in 1 .. Len(frame.signers) :
                                       j # k /\ frame.signers[j] = frame.signers[k],
                  result |-> result, intact |-> TRUE]

\* Lines 217-224: the share of a signer is the entry of private_shares at
\* the position the signer value names.
LoadSecretKeys(frost_keys, signers) ==
    [k \in 1 .. Len(signers) |->
        SecretKeyFromBytes(frost_keys.private_shares[signers[k] + 1][2],
                           frost_keys.private_shares[signers[k] + 1][1])]

\* A comparison that lets a count below the number of shares pass.
FewerSharesThan(frost_keys, n) == Len(frost_keys.private_shares) < n

\* Line 197: the number of participants is not that of the key file.
ParticipantCountMismatch(frost_keys, n) == Len(frost_keys.private_shares) # n

\* Lines 191-224: the key record read from the key file is `loaded`; the
\* arguments are checked against it and the shares are taken from it.
SignMessage(message, signers, n, seed, loaded) ==
    IF loaded.result # "Ok"
    THEN [result |-> loaded.result, error |-> loaded.error]
    ELSE LET frost_keys == loaded.frost_keys
             group_key == FromBytes32(frost_keys.group_key)
             secret_keys == LoadSecretKeys(frost_keys, signers)
         IN  IF ParticipantCountMismatch(frost_keys, n)
             THEN [result |-> "Err", error |-> "ParticipantCountMismatch"]
             ELSE IF Len(signers) < frost_keys.threshold
             THEN [result |-> "Err", error |-> "InsufficientSigners"]
             ELSE IF \E k \in 1 .. Len(signers) :
                        signers[k] >= Len(frost_keys.private_shares)
             THEN [result |-> "Err", error |-> "InvalidSigner"]
             ELSE IF group_key = Invalid
             THEN [result |-> "Err", error |-> "InvalidGroupKey"]
             ELSE IF \E k \in 1 .. Len(signers) : secret_keys[k].key = Invalid
             THEN [result |-> "Err", error |-> "InvalidPrivateKey"]
             ELSE [result |-> "Loaded", error |-> "",
                   group_key |-> group_key, secret_keys |-> secret_keys]

RECURSIVE SeqsUpTo(_, _)
SeqsUpTo(S, len) ==
    IF len = 0 THEN {<<>>}
    ELSE LET shorter == SeqsUpTo(S, len - 1)
         IN  shorter \cup {Append(s, x) : s \in {r \in shorter : Len(r) = len - 1}, x \in S}

SignerLists == SeqsUpTo(0 .. MaxN, MaxSigners)

\* The caller repeats a call that returned an error and left no signature
\* file, with the arguments it gave before.
RepeatsCall ==
    signed.done /\ last.op = "sign_message" /\ last.result = "Err"

\* Lines 184-224: the call, up to the loading of the signers' shares.  A
\* generate_keys call that returned before its write has left no key file,
\* and sign_message then sees what it sees in the initial state, so it is
\* called without a key file from the initial state only.
sign_message ==
    /\ gk.pc = "idle"
    /\ sg.pc = "idle"
    /\ signature_file = NoFile
    /\ IF signed.done THEN RepeatsCall ELSE key_file = NoFile => last.op = "none"
    /\ \E loaded \in {ReadKeyFile(key_file)} :
           \E message \in IF RepeatsCall THEN {last.message} ELSE Messages,
              signers \in IF RepeatsCall THEN {last.signers} ELSE SignerLists,
              n \in IF RepeatsCall THEN {last.n} ELSE 0 .. MaxN,
              seed \in SignSeeds :
             \E r \in {SignMessage(message, signers, n, seed, loaded)} :
               LET frame == [IdleSign EXCEPT !.message = message,
                                             !.signers = signers,
                                             !.n = n, !.seed = seed]
               IN  IF r.result # "Loaded"
                   THEN SignEnd(frame, r.result, r.error)
                   ELSE /\ sg' = [frame EXCEPT !.pc = "commitment_shares",
                                               !.group_key = r.group_key,
                                               !.secret_keys = r.secret_keys]
                        /\ last' = [op |-> "signing", result |-> "Running"]
                        /\ UNCHANGED signed
    /\ UNCHANGED <<key_file, signature_file, gk>>

\* Lines 235-249: the message digest and SignatureAggregator::new.
NewAggregator(frame) ==
    [frame EXCEPT !.message_hash = compute_message_hash(SignContext, frame.message),
                  !.aggregator = [NoAggregator EXCEPT !.state = "Initial"]]

\* Lines 226-249: one commitment share list of one share for every loaded
\* share, in the order of the signer list; then the digest and the
\* aggregator.
GenerateCommitmentShares ==
    /\ sg.pc = "commitment_shares"
    /\ IF sg.i >= Len(sg.secret_keys)
       THEN sg' = [NewAggregator(sg) EXCEPT !.pc = "include_signers", !.i = 0]
       ELSE \E share \in {GenerateCommitmentShare(sg.secret_keys[sg.i + 1].index,
                                                  sg.seed, sg.i + 1)} :
                sg' = [sg EXCEPT !.public_comshares = Append(@, share),
                                 !.secret_comshares = Append(@, <<share>>),
                                 !.nonce_uses = Append(@, 0),
                                 !.i = @ + 1]
    /\ UNCHANGED <<key_file, signature_file, gk, signed, last>>

\* SecretKey::to_public.
ToPublic(secret_key) == [index |-> secret_key.index, share |-> secret_key.key]

\* Lines 251-258: every loaded share's signer is included with its
\* published commitments and its public key; then get_signers, which sorts
\* the aggregator's list and removes its repeats.
IncludeSigner ==
    /\ sg.pc = "include_signers"
    /\ IF sg.i >= Len(sg.secret_keys)
       THEN \E signers \in {GetSigners(sg.aggregator.signers)} :
                sg' = [sg EXCEPT !.aggregator.signers = signers,
                                 !.chosen = signers,
                                 !.pc = "partial_signatures", !.i = 0]
       ELSE sg' = [sg EXCEPT
                     !.aggregator.signers =
                         Append(@, Signer(sg.public_comshares[sg.i + 1])),
                     !.aggregator.public_keys =
                         Append(@, ToPublic(sg.secret_keys[sg.i + 1])),
                     !.i = @ + 1]
    /\ UNCHANGED <<key_file, signature_file, gk, signed, last>>

\* A sign that leaves the commitment share in its list.
KeepShare(commitments) == commitments

\* SecretCommitmentShareList::drop_share, at the end of SecretKey::sign:
\* the share that was used leaves the list.
DropShare(commitments) == Tail(commitments)

\* A loop over the loaded shares that stops after the first one.
FirstPartialSigned(frame) ==
    frame.i >= 1 \/ frame.i >= Len(frame.secret_keys)

\* Line 261: the loop has visited every loaded share.
EveryPartialSigned(frame) == frame.i >= Len(frame.secret_keys)

\* Lines 260-264: every loaded share signs with the commitment share list
\* of its own entry, share 0 of it, and the partial signature is included.
SignPartial ==
    /\ sg.pc = "partial_signatures"
    /\ IF EveryPartialSigned(sg)
       THEN /\ sg' = [sg EXCEPT !.pc = "finalize", !.i = 0]
            /\ UNCHANGED <<signed, last>>
       ELSE LET secret_key == sg.secret_keys[sg.i + 1]
                sec_com == sg.secret_comshares[sg.i + 1]
            IN  IF sec_com = <<>>
                THEN SignEnd(sg, "Err", "CommitmentShareMissing")
                ELSE IF LagrangeFails(secret_key.index, sg.chosen)
                THEN SignEnd(sg, "Panic", "unwrap on Err")
                ELSE \E partial_sig \in {PartialSign(secret_key, sec_com[1],
                                                     sg.message_hash, sg.group_key,
                                                     sg.chosen)} :
                         /\ sg' = [sg EXCEPT
                                     !.secret_comshares[sg.i + 1] = DropShare(@),
                                     !.nonce_uses[sg.i + 1] = @ + 1,
                                     !.aggregator.partial_signatures =
                                         Append(@, partial_sig),
                                     !.i = @ + 1]
                         /\ UNCHANGED <<signed, last>>
    /\ UNCHANGED <<key_file, signature_file, gk>>

\* Lines 266-270: finalize consumes the aggregator and returns the
\* finalized one, or the error.
FinalizeAggregator ==
    /\ sg.pc = "finalize"
    /\ IF Finalize(sg.aggregator.signers, sg.aggregator.partial_signatures,
                   sg.aggregator.public_keys)
       THEN /\ sg' = [sg EXCEPT !.aggregator.state = "Finalized",
                                !.finalize_calls = @ + 1,
                                !.pc = "aggregate"]
            /\ UNCHANGED <<signed, last>>
       ELSE SignEnd(sg, "Err", "FinalizeFailed")
    /\ UNCHANGED <<key_file, signature_file, gk>>

\* Lines 272-275: aggregate.
AggregateSignature ==
    /\ sg.pc = "aggregate"
    /\ \E aggregated \in {Aggregate(sg.aggregator.signers,
                                    sg.aggregator.partial_signatures,
                                    sg.aggregator.public_keys,
                                    sg.message_hash, sg.group_key)} :
           IF aggregated.ok
           THEN /\ sg' = [sg EXCEPT
                            !.threshold_signature =
                                SignatureToBytes(aggregated.R, aggregated.z),
                            !.pc = "save"]
                /\ UNCHANGED <<signed, last>>
           ELSE SignEnd(sg, "Err", "AggregateFailed")
    /\ UNCHANGED <<key_file, signature_file, gk>>

\* Lines 277-283: the signature file is created and the bytes are written.
SaveSignature ==
    /\ sg.pc = "save"
    /\ \E io \in IoOutcomes :
         IF io = "written"
         THEN /\ signature_file' = BytesFile(sg.threshold_signature)
              /\ SignEnd(sg, "Ok", "")
         ELSE IF io = "not_created"
         THEN /\ UNCHANGED signature_file
              /\ SignEnd(sg, "Err", "SignatureFileNotCreated")
         ELSE /\ signature_file' = Garbage
              /\ SignEnd(sg, "Err", "SignatureFileNotWritten")
    /\ UNCHANGED <<key_file, gk>>

(***************************************************************************)
(* validate_signature(message, key_file, signature_file).                  *)
(***************************************************************************)
ValidateContext == 3

\* A parser that copies the bytes into the 64-byte array without checking
\* their number first: the copy panics on any other length.
ParseSignatureByCopy(signature) ==
    IF signature = NoFile THEN [result |-> "Err", error |-> "SignatureFileMissing"]
    ELSE IF signature = Garbage
    THEN [result |-> "Err", error |-> "MalformedSignatureFile"]
    ELSE IF Len(signature.bytes) # SignatureLen
    THEN [result |-> "Panic", error |-> "source slice length does not match"]
    ELSE IF ~SignatureFromBytes(signature.bytes).ok
    THEN [result |-> "Err", error |-> "MalformedSignatureEncoding"]
    ELSE [result |-> "Ok", error |-> "",
          threshold_signature |-> SignatureFromBytes(signature.bytes)]

\* Lines 305-322: the signature file is opened, parsed into bytes, checked
\* for its length and decoded.
ParseSignature(signature) ==
    IF signature = NoFile THEN [result |-> "Err", error |-> "SignatureFileMissing"]
    ELSE IF signature = Garbage
    THEN [result |-> "Err", error |-> "MalformedSignatureFile"]
    ELSE IF Len(signature.bytes) # SignatureLen
    THEN [result |-> "Err", error |-> "InvalidLength"]
    ELSE IF ~SignatureFromBytes(signature.bytes).ok
    THEN [result |-> "Err", error |-> "MalformedSignatureEncoding"]
    ELSE [result |-> "Ok", error |-> "",
          threshold_signature |-> SignatureFromBytes(signature.bytes)]

\* Lines 324-331: the key file is opened and deserialized as a whole, and
\* the group key is decoded.
LoadGroupKey(keys) ==
    LET loaded == ReadKeyFile(keys)
    IN  IF loaded.result # "Ok" THEN loaded
        ELSE IF FromBytes32(loaded.frost_keys.group_key) = Invalid
        THEN [result |-> "Err", error |-> "InvalidGroupKey"]
        ELSE [result |-> "Ok", error |-> "",
              group_key |-> FromBytes32(loaded.frost_keys.group_key)]

ValidateSignature(message, keys, signature) ==
    LET parsed == ParseSignature(signature)
        loaded == LoadGroupKey(keys)
    IN  IF parsed.result # "Ok" THEN [result |-> parsed.result, error |-> parsed.error]
        ELSE IF loaded.result # "Ok"
        THEN [result |-> loaded.result, error |-> loaded.error]
        ELSE IF ~SignatureVerify(parsed.threshold_signature, loaded.group_key,
                                 compute_message_hash(ValidateContext, message))
        THEN [result |-> "Err", error |-> "SignatureVerificationFailed"]
        ELSE [result |-> "Ok", error |-> ""]

\* The caller validates once a message has been signed; a signing that
\* failed has left the signature file as it was before.
validate_signature ==
    /\ gk.pc = "idle"
    /\ sg.pc = "idle"
    /\ signed.done
    /\ \E message \in Messages :
         \E r \in {ValidateSignature(message, key_file, signature_file)} :
             last' = [op |-> "validate_signature", message |-> message,
                      result |-> r.result, error |-> r.error]
    /\ UNCHANGED <<key_file, signature_file, gk, sg, signed>>

(***************************************************************************)
(* The environment: other programs overwrite the two files once a message  *)
(* has been signed.  A validation changes no file, so every pair of files  *)
(* the environment can leave after a signing is reached by letting it act  *)
(* after a validation.                                                     *)
(***************************************************************************)
EnvMayAct == signed.done /\ last.op \in {"validate_signature", "environment"}

ForeignSignatureFiles ==
    { Garbage,
      BytesFile([k \in 1 .. (SignatureLen - 1) |-> 0]),
      BytesFile([k \in 1 .. (SignatureLen + 1) |-> 0]),
      BytesFile([k \in 1 .. SignatureLen |-> 255]) }

\* Key records that agree with `file` on group_key and differ from it in
\* private_shares and threshold (the fields of lines 13-18): one without
\* shares, and one whose only share is a byte short.
SameGroupKey(file) ==
    { [file EXCEPT !.private_shares = <<>>, !.threshold = 0],
      [file EXCEPT !.private_shares = << <<[k \in 1 .. (ScalarLen - 1) |-> 0], 1>> >>,
                   !.threshold = 0] }

\* What another program may leave in place of the key file: no record at
\* all, a record with the same group key and other secret material, or a
\* record whose group key is no encoding of a group element.
ForeignKeyFiles(file) ==
    IF IsRecordFile(file)
    THEN {Garbage, [file EXCEPT !.group_key = [k \in 1 .. ScalarLen |-> 255]]}
             \cup SameGroupKey(file)
    ELSE {Garbage}

EnvSignatureFile ==
    /\ gk.pc = "idle"
    /\ EnvMayAct
    /\ \E content \in ForeignSignatureFiles : signature_file' = content
    /\ last' = [op |-> "environment", result |-> "Ok"]
    /\ signed' = [signed EXCEPT !.intact = FALSE]
    /\ UNCHANGED <<key_file, gk, sg>>

EnvKeyFile ==
    /\ gk.pc = "idle"
    /\ EnvMayAct
    /\ \E content \in ForeignKeyFiles(key_file) : key_file' = content
    /\ last' = [op |-> "environment", result |-> "Ok"]
    /\ signed' = [signed EXCEPT !.intact = FALSE]
    /\ UNCHANGED <<signature_file, gk, sg>>

NotSigned ==
    [done |-> FALSE, message |-> 0, repeats |-> FALSE, result |-> "none",
     intact |-> TRUE]

(***************************************************************************)
(* The specification.                                                      *)
(***************************************************************************)
Init ==
    /\ key_file = NoFile
    /\ signature_file = NoFile
    /\ gk = IdleFrame
    /\ sg = IdleSign
    /\ signed = NotSigned
    /\ last = [op |-> "none", result |-> "Ok"]

Next ==
    \/ GenerateKeysCall
    \/ CreateParticipant
    \/ VerifyProof
    \/ RoundOne
    \/ RoundTwo
    \/ Finish
    \/ Save
    \/ sign_message
    \/ GenerateCommitmentShares
    \/ IncludeSigner
    \/ SignPartial
    \/ FinalizeAggregator
    \/ AggregateSignature
    \/ SaveSignature
    \/ validate_signature
    \/ EnvSignatureFile
    \/ EnvKeyFile

Spec == Init /\ [][Next]_vars

(***************************************************************************)
(* The claims.  After sign_message has returned, `last` holds its          *)
(* arguments and its result, key_file is the record it read, and           *)
(* signature_file is NoFile unless the call created it.                    *)
(***************************************************************************)
DistinctSigners(signers) == {signers[k] : k \in 1 .. Len(signers)}

\* The calls of sign_message that got past the checks of lines 196-204.
SignerCheckReached ==
    /\ last.op = "sign_message"
    /\ IsFrostKeys(key_file)
    /\ last.n = Len(key_file.private_shares)
    /\ Len(last.signers) >= key_file.threshold

C3_SignerIsParticipantIndex ==
    SignerCheckReached =>
        IF \A k \in 1 .. Len(last.signers) : last.signers[k] \in 1 .. last.n
        THEN /\ last.error # "InvalidSigner"
             /\ last.secret_keys = last.signers
        ELSE /\ last.result = "Err"
             /\ last.error = "InvalidSigner"
             /\ last.secret_keys = <<>>

\* C4: after generate_keys(t, n) with 1 <= t <= n, sign_message(m, signers,
\* n) returns Ok for every list of at least t distinct participant indices
\* of 1..n, and validate_signature(m) on the two records it left returns Ok.
C4_QualifyingSignersSignAndValidate ==
    /\ (/\ SignerCheckReached
         /\ key_file.threshold >= 1
         /\ Cardinality(DistinctSigners(last.signers)) = Len(last.signers)
         /\ DistinctSigners(last.signers) \subseteq 1 .. last.n)
        => last.result = "Ok"
    /\ (/\ last.op = "validate_signature"
         /\ signed.result = "Ok"
         /\ signed.intact
         /\ ~signed.repeats
         /\ last.message = signed.message)
        => last.result = "Ok"

\* C5: validate_signature(m') on the key record and the signature that
\* sign_message wrote for m returns an error for every m' other than m.
C5_OtherMessageFailsValidation ==
    (/\ last.op = "validate_signature"
     /\ signed.result = "Ok"
     /\ signed.intact
     /\ last.message # signed.message)
    => last.result = "Err"

C5_OtherMessageValidated ==
    /\ last.op = "validate_signature"
    /\ signed.result = "Ok"
    /\ signed.intact
    /\ last.message # signed.message
    /\ last.error = "SignatureVerificationFailed"

\* C6: when generate_keys(t, n) returns Ok, the n group keys computed at
\* the finish of the key generation are pairwise equal, and the group_key
\* of the key record is the encoding of each of them.
C6_OneGroupKey ==
    (last.op = "generate_keys" /\ last.result = "Ok")
    => /\ Len(last.group_keys) = last.n
       /\ \A i, j \in 1 .. Len(last.group_keys) :
              last.group_keys[i] = last.group_keys[j]
       /\ IsFrostKeys(key_file)
       /\ \A i \in 1 .. Len(last.group_keys) :
              key_file.group_key = ToBytes32(last.group_keys[i])

C6_SeveralParticipantsFinished ==
    /\ last.op = "generate_keys"
    /\ last.result = "Ok"
    /\ last.n >= 3
    /\ Len(last.group_keys) = last.n

\* C7: generate_keys(t, n) with t > n returns an error before it creates a
\* participant, and writes no key record.
C7_ThresholdAboveParticipantsRejected ==
    (last.op = "generate_keys" /\ last.result # "Running" /\ last.t > last.n)
    => /\ last.result = "Err"
       /\ last.error = "ThresholdExceedsParticipants"
       /\ last.participants = 0
       /\ key_file = NoFile

C7_ThresholdAboveParticipantsCalled ==
    /\ last.op = "generate_keys"
    /\ last.t > last.n
    /\ last.n >= 1
    /\ last.result = "Err"

\* C8: generate_keys(t, n) with t = 0 or n = 0 ends in a returned error:
\* it does not panic and writes no key record.
C8_ZeroParametersRejected ==
    (/\ last.op = "generate_keys"
     /\ last.result # "Running"
     /\ (last.t = 0 \/ last.n = 0))
    => (last.result = "Err" /\ key_file = NoFile)

\* C9: whatever the signature file, the key file and the message are, a
\* call of validate_signature ends with Ok or with a returned error, leaves
\* both files as they were, and returns an error when the signature record
\* is not 64 bytes long.
C9_ValidationReturnsAndWritesNothing ==
    [][last'.op = "validate_signature"
        => /\ last'.result \in {"Ok", "Err"}
           /\ key_file' = key_file
           /\ signature_file' = signature_file
           /\ (signature_file.kind = "bytes"
                  /\ Len(signature_file.bytes) # SignatureLen)
               => last'.result = "Err"]_vars

C9_WrongLengthValidated ==
    /\ last.op = "validate_signature"
    /\ signature_file.kind = "bytes"
    /\ Len(signature_file.bytes) # SignatureLen
    /\ last.error = "InvalidLength"

\* C10: validate_signature does not read the private shares: on the same
\* signature and message it returns for every key record that agrees with
\* the key file on group_key, and differs in private_shares and threshold,
\* what it returned for the key file.
C10_ResultDependsOnGroupKeyOnly ==
    (last.op = "validate_signature" /\ IsFrostKeys(key_file) /\ signed.intact)
    => \A other \in SameGroupKey(key_file) :
           ValidateSignature(last.message, other, signature_file).result
               = last.result

\* C11: no participant is in round two of the key generation before each
\* of the n participants has finished round one and holds its n - 1 shares
\* for the others, and no participant has finished before each of them is
\* in round two.
C11_RoundsInOrder ==
    /\ gk.dkg_states_round_two # <<>>
         => /\ Len(gk.all_secret_shares) = gk.n
            /\ Len(gk.dkg_states) + Len(gk.dkg_states_round_two) = gk.n
            /\ \A j \in 1 .. gk.n : Len(gk.all_secret_shares[j]) = gk.n - 1
    /\ gk.group_keys # <<>> => Len(gk.dkg_states_round_two) = gk.n

C11_FinishAfterRoundTwo ==
    /\ gk.pc = "finish"
    /\ gk.n >= 2
    /\ Len(gk.group_keys) >= 1
    /\ Len(gk.dkg_states_round_two) = gk.n

C13_SharesOfRecipient ==
    /\ \A i \in 1 .. Len(gk.dkg_states_round_two) :
         LET received == gk.dkg_states_round_two[i].my_secret_shares
             senders == RemoveAt([j \in 1 .. gk.n |-> j], i)
         IN  /\ Len(received) = gk.n - 1
             /\ \A k \in 1 .. Len(received) :
                    received[k] = EvaluatePolynomial(i, gk.coefficients[senders[k]])
    /\ (last.op = "generate_keys" /\ last.result = "Err")
         => last.error # "ShareCountMismatch"

C13_ThreeInRoundTwo ==
    /\ gk.pc = "finish"
    /\ gk.n >= 3
    /\ Len(gk.dkg_states_round_two) = gk.n

\* C18: when generate_keys(t, n) returns Ok the key record holds n private
\* shares, the k-th of them the long-lived share of participant k, the sum
\* of every participant's polynomial at k, stored with the index k, and its
\* threshold is t.
C18_SharesInParticipantOrder ==
    /\ gk.pc = "save"
         => /\ Len(gk.private_shares) = gk.n
            /\ \A k \in 1 .. gk.n :
                   gk.private_shares[k]
                     = <<ToBytes32(SumSeq([j \in 1 .. gk.n |->
                                             Horner(gk.coefficients[j], k, 1)])),
                         k>>
    /\ (last.op = "generate_keys" /\ last.result = "Ok")
         => /\ IsFrostKeys(key_file)
            /\ key_file.private_shares = last.private_shares
            /\ Len(key_file.private_shares) = last.n
            /\ \A k \in 1 .. last.n : key_file.private_shares[k][2] = k
            /\ key_file.threshold = last.t

C18_RecordOfThreeShares ==
    /\ last.op = "generate_keys"
    /\ last.result = "Ok"
    /\ last.n >= 3
    /\ last.t >= 2
    /\ IsFrostKeys(key_file)

\* C14: generate_keys leaves a key record only when it returns Ok, after
\* all n participants went through proof verification, round one, round
\* two and finish, and sign_message leaves a signature record only when it
\* returns Ok; a call that ends in an error leaves its output file as it
\* was, which is absent.
C14_OutputsAllOrNothing ==
    /\ (last.op = "generate_keys" /\ last.result \in {"Err", "Panic"})
         => key_file = NoFile
    /\ (last.op = "generate_keys" /\ last.result = "Ok")
         => /\ IsFrostKeys(key_file)
            /\ last.participants = last.n
            /\ last.round_one = last.n
            /\ Len(last.group_keys) = last.n
    /\ (last.op = "sign_message" /\ last.result \in {"Err", "Panic"})
         => signature_file = NoFile
    /\ (last.op = "sign_message" /\ last.result = "Ok")
         => signature_file.kind = "bytes"

\* C15: in a sign_message call every entry of the signer list has the
\* commitment share generated for it, a commitment share is in its list
\* until one partial signature has been made with it and never after, so
\* no second one is made with it, and no commitment share exists once the
\* call has returned.
C15_NoncesUsedOnce ==
    /\ sg.pc = "idle"
         => (sg.secret_comshares = <<>> /\ sg.public_comshares = <<>>)
    /\ Len(sg.secret_comshares) = Len(sg.public_comshares)
    /\ Len(sg.secret_comshares) <= Len(sg.secret_keys)
    /\ \A k \in 1 .. Len(sg.secret_comshares) :
         /\ sg.public_comshares[k]
              = GenerateCommitmentShare(sg.secret_keys[k].index, sg.seed, k)
         /\ sg.nonce_uses[k] <= 1
         /\ sg.secret_comshares[k]
              = IF sg.nonce_uses[k] = 0 THEN <<sg.public_comshares[k]>> ELSE <<>>
    /\ Len(sg.aggregator.partial_signatures) = PlainSum(sg.nonce_uses)
    /\ (last.op = "sign_message" /\ last.result = "Err")
         => last.error # "CommitmentShareMissing"

C15_RepeatedCallSigned ==
    /\ signed.done
    /\ sg.pc = "finalize"
    /\ Len(sg.secret_keys) >= 2
    /\ \A k \in 1 .. Len(sg.secret_keys) :
           sg.nonce_uses[k] = 1 /\ sg.secret_comshares[k] = <<>>

\* C16: in a sign_message call no partial signature exists before every
\* loaded share's signer is in the aggregator; finalize is called on an
\* aggregator that holds a partial signature of every included signer, one
\* for every entry of the signer list, and at most once; aggregate and the
\* write come only after finalize has succeeded.
C16_SessionInOrder ==
    /\ sg.pc \in {"commitment_shares", "include_signers"}
         => sg.aggregator.partial_signatures = <<>>
    /\ sg.aggregator.partial_signatures # <<>>
         => \A k \in 1 .. Len(sg.secret_keys) :
                \E j \in 1 .. Len(sg.aggregator.signers) :
                    sg.aggregator.signers[j].participant_index
                        = sg.secret_keys[k].index
    /\ sg.pc = "finalize"
         => /\ sg.aggregator.state = "Initial"
            /\ sg.finalize_calls = 0
            /\ Len(sg.aggregator.partial_signatures) = Len(sg.secret_keys)
            /\ \A j \in 1 .. Len(sg.aggregator.signers) :
                   \E k \in 1 .. Len(sg.aggregator.partial_signatures) :
                       sg.aggregator.partial_signatures[k].index
                           = sg.aggregator.signers[j].participant_index
    /\ sg.finalize_calls <= 1
    /\ sg.pc \in {"aggregate", "save"}
         <=> (sg.aggregator.state = "Finalized" /\ sg.finalize_calls = 1)
    /\ sg.threshold_signature # <<>> => sg.pc = "save"

C16_FinalizedSessionOfTwo ==
    /\ sg.pc = "save"
    /\ sg.aggregator.state = "Finalized"
    /\ Len(sg.aggregator.signers) >= 2
    /\ Len(sg.aggregator.partial_signatures) >= 2

\* C19: when the n given to sign_message is not the number of private
\* shares of the key record, the call returns the error of this check,
\* whatever the threshold and the signer values are, before it loads a
\* share or generates a commitment share, and writes no signature.
C19_ParticipantCountCheckedFirst ==
    (/\ last.op = "sign_message"
     /\ IsFrostKeys(key_file)
     /\ last.n # Len(key_file.private_shares))
    => /\ last.result = "Err"
       /\ last.error = "ParticipantCountMismatch"
       /\ last.secret_keys = <<>>
       /\ last.commitment_shares = 0
       /\ signature_file = NoFile

C19_WrongCountAndBadSigners ==
    /\ last.op = "sign_message"
    /\ IsFrostKeys(key_file)
    /\ last.n # Len(key_file.private_shares)
    /\ Len(last.signers) < key_file.threshold
    /\ \E k \in 1 .. Len(last.signers) :
           last.signers[k] >= Len(key_file.private_shares)
    /\ last.error = "ParticipantCountMismatch"

====
